---- MODULE Spec2Model ----
(***************************************************************************)
(* Two-stage classical cipher of cipher_combined.py: Vigenere substitution *)
(* followed by columnar transposition, with the frequency attack and the   *)
(* known-plaintext attack.                                                 *)
(*                                                                         *)
(* A string is a sequence of character codes (ord values): 'A' = 65 ..     *)
(* 'Z' = 90, 'a' = 97 .. 'z' = 122, ' ' = 32.  A matrix cell is a string   *)
(* of length 0 (the '' the code initialises cells with) or 1.              *)
(***************************************************************************)
EXTENDS Integers, Sequences, FiniteSets, TLC

VARIABLES
    in_text,       \* the caller's text: the plaintext, or the known plaintext
    in_kv,         \* the Vigenere key
    in_kc,         \* the columnar key
    in_max_cols,   \* the max_cols argument of an attack
    in_kv_maxlen,  \* the kv_maxlen argument of attack_frequency
    pc,            \* the call made last
    ct_res,        \* what encrypt returned or raised, or the ciphertext given
    dec_res,       \* what decrypt returned or raised
    order_res,     \* what column_order_from_key returned
    kp_res,        \* what attack_known_plaintext returned
    best_candidates,  \* attack_frequency's list when its loops end, in loop order
    freq_res       \* what attack_frequency returned

vars == <<in_text, in_kv, in_kc, in_max_cols, in_kv_maxlen, pc, ct_res, dec_res,
          order_res, kp_res, best_candidates, freq_res>>

\* ---------------------------------------------------------------- bounds
MaxTextLen == 3
MaxColKeyLen == 3
MaxAttackCols == 4
MaxKnownLen == 3
MaxCipherLen == 4
MaxFreqLen == 4
MaxKeyLen == 2

\* ------------------------------------------------------ program constants
OrdA == 65
OrdZ == 90
OrdLowerA == 97
OrdLowerZ == 122
Filler == 88
Alphabet == 26
MinVigKeyLen == 10
MinColKeyLen == 2
PermCap == 8
TopK == 10

\* ------------------------------------------------------------- strings
Range(s) == {s[i] : i \in 1..Len(s)}

Min2(a, b) == IF a < b THEN a ELSE b

\* str.upper() on one ASCII character
Upper(ch) == IF ch >= OrdLowerA /\ ch <= OrdLowerZ THEN ch - (OrdLowerA - OrdA) ELSE ch

IsLetter(ch) == ch >= OrdA /\ ch <= OrdZ

\* normalize_text: ''.join(ch for ch in s.upper() if 'A' <= ch <= 'Z')
normalize_text(s) == SelectSeq([i \in 1..Len(s) |-> Upper(s[i])], IsLetter)

\* math.ceil(a / b) for a >= 0, b > 0
Ceil(a, b) == (a + b - 1) \div b

\* s[lo:hi] with Python's clamping of slice bounds (0 <= lo <= hi)
Slice(s, lo, hi) == SubSeq(s, Min2(lo, Len(s)) + 1, Min2(hi, Len(s)))

\* s.rstrip('X')
RECURSIVE rstrip(_)
rstrip(s) ==
    IF Len(s) > 0 /\ s[Len(s)] = Filler THEN rstrip(SubSeq(s, 1, Len(s) - 1)) ELSE s

\* cells[lo] + ... + cells[hi], by halves
RECURSIVE JoinRange(_, _, _)
JoinRange(cells, lo, hi) ==
    IF lo > hi THEN <<>>
    ELSE IF lo = hi THEN cells[lo]
    ELSE LET mid == (lo + hi) \div 2
         IN  JoinRange(cells, lo, mid) \o JoinRange(cells, mid + 1, hi)

\* ''.join(cells) for a sequence of strings; also the concatenation of the
\* lists a loop appends one after another
Join(cells) == JoinRange(cells, 1, Len(cells))

\* ------------------------------------------------------------ Vigenere
\* key_nums = [ord(k)-65 for k in key.upper()]
key_nums(key) == [i \in 1..Len(key) |-> Upper(key[i]) - OrdA]

vigenere_encrypt(pt, key) ==
    [i \in 1..Len(pt) |->
        (((pt[i] - OrdA) + key_nums(key)[((i - 1) % Len(key)) + 1]) % Alphabet) + OrdA]

\* vigenere_decrypt adding the key where it is to be subtracted
vigenere_decrypt_added(ct, key) ==
    [i \in 1..Len(ct) |->
        (((ct[i] - OrdA) + key_nums(key)[((i - 1) % Len(key)) + 1]) % Alphabet) + OrdA]

vigenere_decrypt(ct, key) ==
    [i \in 1..Len(ct) |->
        (((ct[i] - OrdA) - key_nums(key)[((i - 1) % Len(key)) + 1] + Alphabet) % Alphabet)
            + OrdA]

\* ------------------------------------------------------------ columnar
\* PairLess with the index left out of the sort key: equal symbols compare as
\* smaller, so the later of two equal symbols is put first
PairLessSymbolOnly(a, b) == a[2] <= b[2]

\* the sort key (x[1], x[0]) of an enumerated pair <<idx, ch>>
PairLess(a, b) == a[2] < b[2] \/ (a[2] = b[2] /\ a[1] < b[1])

RECURSIVE InsertSorted(_, _)
InsertSorted(p, sorted) ==
    IF sorted = <<>> THEN <<p>>
    ELSE IF PairLess(p, Head(sorted)) THEN <<p>> \o sorted
    ELSE <<Head(sorted)>> \o InsertSorted(p, Tail(sorted))

\* sorted(pairs, key=lambda x: (x[1], x[0]))
RECURSIVE SortPairs(_)
SortPairs(pairs) ==
    IF pairs = <<>> THEN <<>>
    ELSE InsertSorted(pairs[Len(pairs)], SortPairs(SubSeq(pairs, 1, Len(pairs) - 1)))

\* column_order_from_key: original column indices (0-based) in read order
column_order_from_key(key) ==
    LET enumerated == [i \in 1..Len(key) |-> <<i - 1, key[i]>>]
        sorted_pairs == SortPairs(enumerated)
    IN  [j \in 1..Len(key) |-> sorted_pairs[j][1]]

\* The scatter loop shared by decrypt, attempt_undo_transposition and
\* attack_known_plaintext: segment number sorted_pos (0-based) of the text,
\* rows long, is written top to bottom into column perm[sorted_pos]; a cell no
\* segment character reaches stays ''.
\* PlaceSegments with the permutation read the other way: segment number
\* perm[sorted_pos] is written into column sorted_pos
RECURSIVE PlaceSegmentsInverse(_, _, _, _, _)
PlaceSegmentsInverse(matrix, ct, rows, perm, sorted_pos) ==
    IF sorted_pos >= Len(perm) THEN matrix
    ELSE LET from == perm[sorted_pos + 1]
             seg == Slice(ct, from * rows, (from + 1) * rows)
             placed == [r \in 1..rows |->
                          [matrix[r] EXCEPT ![sorted_pos + 1] =
                              IF r <= Len(seg) THEN <<seg[r]>> ELSE <<>>]]
         IN  PlaceSegmentsInverse(placed, ct, rows, perm, sorted_pos + 1)

RECURSIVE PlaceSegments(_, _, _, _, _)
PlaceSegments(matrix, ct, rows, perm, sorted_pos) ==
    IF sorted_pos >= Len(perm) THEN matrix
    ELSE LET seg == Slice(ct, sorted_pos * rows, (sorted_pos + 1) * rows)
             orig_col == perm[sorted_pos + 1]
             placed == [r \in 1..rows |->
                          [matrix[r] EXCEPT ![orig_col + 1] =
                              IF r <= Len(seg) THEN <<seg[r]>> ELSE <<>>]]
         IN  PlaceSegments(placed, ct, rows, perm, sorted_pos + 1)

\* ''.join(''.join(row) for row in matrix).rstrip('X')
ReadRows(matrix) == rstrip(Join([r \in 1..Len(matrix) |-> Join(matrix[r])]))

EmptyMatrix(rows, L) == [r \in 1..rows |-> [c \in 1..L |-> <<>>]]

\* the row-major text rebuilt from ct for L columns under perm
Reconstruct(ct, L, perm) ==
    LET rows == Ceil(Len(ct), L)
    IN  ReadRows(PlaceSegments(EmptyMatrix(rows, L), ct, rows, perm, 0))

\* ------------------------------------------------------ encrypt / decrypt
Ok(t) == [status |-> "ok", text |-> t]
Raise(e) == [status |-> e, text |-> <<>>]

encrypt(plaintext, kv, kc) ==
    LET pt == normalize_text(plaintext)
        intermediate == vigenere_encrypt(pt, kv)
        Lc == Len(kc)
        rows == Ceil(Len(intermediate), Lc)
        pad_len == rows * Lc - Len(intermediate)
        intermediate_padded == intermediate \o [i \in 1..pad_len |-> Filler]
        matrix == [r \in 1..rows |-> SubSeq(intermediate_padded, (r - 1) * Lc + 1, r * Lc)]
        order == column_order_from_key(kc)
    IN  IF Len(kv) < MinVigKeyLen THEN Raise("InvalidKey")
        ELSE IF Len(kc) < MinColKeyLen THEN Raise("InvalidKey")
        ELSE Ok(Join([j \in 1..Lc |-> [r \in 1..rows |-> matrix[r][order[j] + 1]]]))

decrypt(ciphertext, kv, kc) ==
    LET ct == normalize_text(ciphertext)
        Lc == Len(kc)
        order == column_order_from_key(kc)
        intermediate == Reconstruct(ct, Lc, order)
    IN  IF Len(kv) < MinVigKeyLen THEN Raise("InvalidKey")
        ELSE IF Lc = 0 THEN Raise("ZeroDivisionError")
        ELSE Ok(vigenere_decrypt(intermediate, kv))

\* ------------------------------------------------------ analysis helpers
\* ENGLISH_FREQ in thousandths of a percent, indexed by letter number + 1
ENGLISH_FREQ ==
    << 8167, 1492, 2782, 4253, 12702, 2228, 2015, 6094, 6966, 153, 772, 4025, 2406,
       6749, 7507, 1929, 95, 5987, 6327, 9056, 2758, 978, 2360, 150, 1974, 74 >>

\* float('inf'): larger than every score of a nonempty text
Inf == 2147483647

Count(text, ch) == Cardinality({i \in 1..Len(text) : text[i] = ch})

RECURSIVE SumTo(_, _)
SumTo(f, k) == IF k = 0 THEN 0 ELSE f[k] + SumTo(f, k - 1)

\* chi_squared_score in hundredths.  With expected = ENGLISH_FREQ[ch] * N / 100
\* the term (observed - expected)^2 / expected equals
\* observed^2 / expected - 2 * observed + expected; each part is truncated to a
\* hundredth, where the code rounds to a double.
chi_squared_score(text) ==
    LET N == Len(text)
        term == [l \in 1..Alphabet |->
                    LET observed == Count(text, OrdA + l - 1)
                    IN  ((10000000 * observed * observed) \div (ENGLISH_FREQ[l] * N))
                            - 200 * observed + ((ENGLISH_FREQ[l] * N) \div 1000)]
    IN  IF N = 0 THEN Inf ELSE SumTo(term, Alphabet)

\* ------------------------------------------------------- permutations
RECURSIVE Factorial(_)
Factorial(k) == IF k <= 1 THEN 1 ELSE k * Factorial(k - 1)

RemoveAt(s, i) == SubSeq(s, 1, i - 1) \o SubSeq(s, i + 1, Len(s))

\* the k-th (0-based) permutation of items in lexicographic order
RECURSIVE NthPermutation(_, _)
NthPermutation(items, k) ==
    IF items = <<>> THEN <<>>
    ELSE LET f == Factorial(Len(items) - 1)
             i == (k \div f) + 1
         IN  <<items[i]>> \o NthPermutation(RemoveAt(items, i), k % f)

\* list(itertools.permutations(range(L))): lexicographic order
permutations(L) ==
    [k \in 1..Factorial(L) |-> NthPermutation([i \in 1..L |-> i - 1], k - 1)]

\* attempt_undo_transposition: list of (perm, reconstructed_text)
attempt_undo_transposition(ct, cols) ==
    IF cols > PermCap THEN <<>>
    ELSE LET perms == permutations(cols)
         IN  [k \in 1..Len(perms) |-> <<perms[k], Reconstruct(ct, cols, perms[k])>>]

\* range(2, min(max_cols+1, n)) as a sequence
ColsRange(max_cols, n) ==
    LET stop == Min2(max_cols + 1, n)
    IN  [i \in 1..(IF stop > 2 THEN stop - 2 ELSE 0) |-> i + 1]

\* ----------------------------------------------- known-plaintext attack
startswith(s, prefix) ==
    Len(s) >= Len(prefix) /\ SubSeq(s, 1, Len(prefix)) = prefix

\* for i in range(len(derived_shifts)): derived_shifts[i] == derived_shifts[i % key_len]
PeriodOk(derived_shifts, key_len) ==
    \A i \in 0..(Len(derived_shifts) - 1) :
        derived_shifts[i + 1] = derived_shifts[(i % key_len) + 1]

\* FirstPeriod with the key lengths tried from the longest down: the whole
\* sequence is a period of itself, so its length is found first
LongestPeriod(derived_shifts, key_len) == Len(derived_shifts)

\* for key_len in range(1, len(derived_shifts) + 1): first key_len that is ok,
\* 0 when the loop ends without one
RECURSIVE FirstPeriod(_, _)
FirstPeriod(derived_shifts, key_len) ==
    IF key_len > Len(derived_shifts) THEN 0
    ELSE IF PeriodOk(derived_shifts, key_len) THEN key_len
    ELSE FirstPeriod(derived_shifts, key_len + 1)

ShiftsToKey(shifts) == [i \in 1..Len(shifts) |-> shifts[i] + OrdA]

\* the body of the permutation loop: the candidates (none or one) of one branch
KnownPlaintextBranch(kp, kc, cols, perm) ==
    LET intermediate == Reconstruct(kc, cols, perm)
        derived_shifts == [i \in 1..Len(kp) |->
                              ((intermediate[i] - OrdA) - (kp[i] - OrdA)) % Alphabet]
        key_len == FirstPeriod(derived_shifts, 1)
        key == ShiftsToKey(SubSeq(derived_shifts, 1, key_len))
        dec_full == vigenere_decrypt(intermediate, key)
    IN  IF Len(intermediate) < Len(kp) THEN <<>>
        ELSE IF key_len = 0 THEN <<>>
        ELSE IF startswith(dec_full, kp)
             THEN << [cols |-> cols, perm |-> perm, key_len |-> key_len, kv_key |-> key,
                      intermediate |-> intermediate,
                      plaintext_full_candidate |-> dec_full] >>
             ELSE <<>>

NonEmpty(s) == s # <<>>

\* one iteration of the loop over cols
KnownPlaintextCols(kp, kc, cols) ==
    IF cols > PermCap THEN <<>>
    ELSE LET perms == permutations(cols)
             found == SelectSeq([k \in 1..Len(perms) |->
                                    KnownPlaintextBranch(kp, kc, cols, perms[k])], NonEmpty)
         IN  [k \in 1..Len(found) |-> found[k][1]]

\* attack_known_plaintext with the cap tested on max_cols, not on cols
attack_known_plaintext_capped_on_max(known_pt, known_ct, max_cols) ==
    LET kp == normalize_text(known_pt)
        kc == normalize_text(known_ct)
        colsRange == ColsRange(max_cols, Len(kc))
    IN  Join([i \in 1..Len(colsRange) |->
                IF max_cols > PermCap THEN <<>>
                ELSE KnownPlaintextCols(kp, kc, colsRange[i])])

attack_known_plaintext(known_pt, known_ct, max_cols) ==
    LET kp == normalize_text(known_pt)
        kc == normalize_text(known_ct)
        colsRange == ColsRange(max_cols, Len(kc))
    IN  Join([i \in 1..Len(colsRange) |-> KnownPlaintextCols(kp, kc, colsRange[i])])

\* ----------------------------------------------------- frequency attack
\* candidate[pos::kl]
Stride(candidate, pos, kl) ==
    [j \in 1..Ceil(Len(candidate) - pos, kl) |-> candidate[pos + (j - 1) * kl + 1]]

\* ''.join(chr(((ord(ch)-65 - shift) % 26) + 65) for ch in subseq)
ShiftBack(subseq, shift) ==
    [j \in 1..Len(subseq) |-> (((subseq[j] - OrdA) - shift) % Alphabet) + OrdA]

\* for shift in range(26): keep the first shift whose score is strictly below
\* the best so far
RECURSIVE BestShift(_, _, _, _)
BestShift(subseq, shift, best_shift, best_score) ==
    IF shift >= Alphabet THEN best_shift
    ELSE LET score == chi_squared_score(ShiftBack(subseq, shift))
         IN  IF score < best_score
             THEN BestShift(subseq, shift + 1, shift, score)
             ELSE BestShift(subseq, shift + 1, best_shift, best_score)

\* the body of the key-length loop: one candidate dict
FrequencyCandidate(cols, perm, candidate, kl) ==
    LET key_shifts == [pos \in 1..kl |-> BestShift(Stride(candidate, pos - 1, kl), 0, 0, Inf)]
        key == ShiftsToKey(key_shifts)
        dec_full == vigenere_decrypt(candidate, key)
    IN  [cols |-> cols, perm |-> perm, key_len |-> kl, key |-> key,
         plaintext_candidate |-> dec_full, score |-> chi_squared_score(dec_full)]

\* the candidates appended for one column count, in loop order
FrequencyCols(ct, cols, kv_maxlen) ==
    LET undo_results == attempt_undo_transposition(ct, cols)
    IN  Join([k \in 1..Len(undo_results) |->
                [kl \in 1..Min2(kv_maxlen, Len(undo_results[k][2])) |->
                    FrequencyCandidate(cols, undo_results[k][1], undo_results[k][2], kl)]])

\* best_candidates as it stands when the loops end, before the sort
FrequencyAll(ciphertext, max_cols, kv_maxlen) ==
    LET ct == normalize_text(ciphertext)
        colsRange == ColsRange(max_cols, Len(ct))
    IN  Join([i \in 1..Len(colsRange) |-> FrequencyCols(ct, colsRange[i], kv_maxlen)])

\* InsertByScore for a sort with the comparison turned round (largest first)
RECURSIVE InsertByScoreDescending(_, _)
InsertByScoreDescending(c, sorted) ==
    IF sorted = <<>> THEN <<c>>
    ELSE IF c.score > Head(sorted).score THEN <<c>> \o sorted
    ELSE <<Head(sorted)>> \o InsertByScoreDescending(c, Tail(sorted))

\* list.sort(key=lambda x: x['score']) is stable: an element goes after the
\* elements of equal score that precede it
RECURSIVE InsertByScore(_, _)
InsertByScore(c, sorted) ==
    IF sorted = <<>> THEN <<c>>
    ELSE IF c.score < Head(sorted).score THEN <<c>> \o sorted
    ELSE <<Head(sorted)>> \o InsertByScore(c, Tail(sorted))

RECURSIVE SortByScore(_)
SortByScore(cands) ==
    IF cands = <<>> THEN <<>>
    ELSE InsertByScore(cands[Len(cands)], SortByScore(SubSeq(cands, 1, Len(cands) - 1)))

\* best_candidates.sort(key=...); return best_candidates[:10]
SortAndCut(cands) == Slice(SortByScore(cands), 0, TopK)

attack_frequency(ciphertext, max_cols, kv_maxlen) ==
    SortAndCut(FrequencyAll(ciphertext, max_cols, kv_maxlen))

\* ------------------------------------------------------------ inputs
\* all strings over chars of length at most n
StringsUpTo(chars, n) == UNION {[1..k -> chars] : k \in 0..n}

THISISATEST == <<84, 72, 73, 83, 73, 83, 65, 84, 69, 83, 84>>
LONGERKEYABC == <<76, 79, 78, 71, 69, 82, 75, 69, 89, 65, 66, 67>>
ZEBRA == <<90, 69, 66, 82, 65>>
AAB == <<65, 65, 66>>
TwelveX == [i \in 1..12 |-> Filler]

\* texts as a caller passes them, over 'B', 'X', 'x' and ' ' (not yet normalized)
Texts == StringsUpTo({66, 88, 120, 32}, MaxTextLen) \cup {THISISATEST, TwelveX}

\* Vigenere keys of 9, 10 and 11 letters: 'A' or 'W' followed by 'A's
VigKeys ==
    {[i \in 1..n |-> IF i = 1 THEN first ELSE OrdA] : first \in {65, 87}, n \in 9..11}
        \cup {LONGERKEYABC}

\* columnar keys of 0 to MaxColKeyLen letters over 'A', 'B'
ColKeys == StringsUpTo({65, 66}, MaxColKeyLen) \cup {ZEBRA}

\* known plaintexts (over 'A', 'b') and ciphertexts (over 'A', 'B', 'X'; over
\* 'E', 'X' for the frequency attack) handed to the attacks
KnownPlains == StringsUpTo({65, 98}, MaxKnownLen)
KnownCiphers == StringsUpTo({65, 66, 88}, MaxCipherLen)
FreqCiphers == StringsUpTo({69, 88}, MaxFreqLen)

NoResult == [status |-> "none", text |-> <<>>]

\* ------------------------------------------------------------ the calls
Init ==
    /\ in_text \in Texts
    /\ in_kv \in VigKeys
    /\ in_kc \in ColKeys
    /\ in_max_cols = 0
    /\ in_kv_maxlen = 0
    /\ pc = "start"
    /\ ct_res = NoResult
    /\ dec_res = NoResult
    /\ order_res = <<>>
    /\ kp_res = <<>>
    /\ best_candidates = <<>>
    /\ freq_res = <<>>

\* ct = encrypt(text, kv, kc)
Encrypt ==
    /\ pc = "start"
    /\ ct_res' = encrypt(in_text, in_kv, in_kc)
    /\ pc' = "encrypted"
    /\ UNCHANGED <<in_text, in_kv, in_kc, in_max_cols, in_kv_maxlen, dec_res,
                   order_res, kp_res, best_candidates, freq_res>>

\* dec = decrypt(ct, kv, kc) on the ciphertext encrypt returned
Decrypt ==
    /\ pc = "encrypted"
    /\ ct_res.status = "ok"
    /\ dec_res' = decrypt(ct_res.text, in_kv, in_kc)
    /\ pc' = "decrypted"
    /\ UNCHANGED <<in_text, in_kv, in_kc, in_max_cols, in_kv_maxlen, ct_res, order_res,
                   kp_res, best_candidates, freq_res>>

\* decrypt(text, kv, kc) on a text the caller supplies as the ciphertext
DecryptText ==
    /\ pc = "start"
    /\ dec_res' = decrypt(in_text, in_kv, in_kc)
    /\ pc' = "decrypted_text"
    /\ UNCHANGED <<in_text, in_kv, in_kc, in_max_cols, in_kv_maxlen, ct_res, order_res,
                   kp_res, best_candidates, freq_res>>

\* column_order_from_key(kc)
ColumnOrder ==
    /\ pc = "start"
    /\ order_res' = column_order_from_key(in_kc)
    /\ pc' = "ordered"
    /\ UNCHANGED <<in_text, in_kv, in_kc, in_max_cols, in_kv_maxlen, ct_res, dec_res,
                   kp_res, best_candidates, freq_res>>

\* attack_known_plaintext(text, ct, m) on the ciphertext encrypt returned
AttackEncrypted ==
    /\ pc = "encrypted"
    /\ ct_res.status = "ok"
    /\ \E m \in 2..MaxAttackCols :
        /\ in_max_cols' = m
        /\ kp_res' = attack_known_plaintext(in_text, ct_res.text, m)
    /\ pc' = "attacked"
    /\ UNCHANGED <<in_text, in_kv, in_kc, in_kv_maxlen, ct_res, dec_res, order_res,
                   best_candidates, freq_res>>

Next == Encrypt \/ Decrypt \/ DecryptText \/ ColumnOrder \/ AttackEncrypted

Spec == Init /\ [][Next]_vars

\* A known plaintext and a ciphertext are given; no key is.
Given(plains, ciphers, colCounts, keyLens) ==
    /\ in_text \in plains
    /\ ct_res \in {Ok(c) : c \in ciphers}
    /\ in_max_cols \in colCounts
    /\ in_kv_maxlen \in keyLens
    /\ in_kv = <<>>
    /\ in_kc = <<>>
    /\ pc = "given"
    /\ dec_res = NoResult
    /\ order_res = <<>>
    /\ kp_res = <<>>
    /\ best_candidates = <<>>
    /\ freq_res = <<>>

\* attack_known_plaintext(text, ciphertext, max_cols)
AttackKnownPlaintext ==
    /\ pc = "given"
    /\ kp_res' = attack_known_plaintext(in_text, ct_res.text, in_max_cols)
    /\ pc' = "known_attacked"
    /\ UNCHANGED <<in_text, in_kv, in_kc, in_max_cols, in_kv_maxlen, ct_res, dec_res,
                   order_res, best_candidates, freq_res>>

\* attack_frequency(ciphertext, max_cols, kv_maxlen)
AttackFrequency ==
    /\ pc = "given"
    /\ best_candidates' = FrequencyAll(ct_res.text, in_max_cols, in_kv_maxlen)
    /\ freq_res' = SortAndCut(best_candidates')
    /\ pc' = "freq_attacked"
    /\ UNCHANGED <<in_text, in_kv, in_kc, in_max_cols, in_kv_maxlen, ct_res, dec_res,
                   order_res, kp_res>>

\* the known-plaintext attack on every small known plaintext and ciphertext
InitKnown == Given(KnownPlains, KnownCiphers, 0..MaxAttackCols, {0})

NextKnown == AttackKnownPlaintext

SpecKnown == InitKnown /\ [][NextKnown]_vars

\* the frequency attack on every small ciphertext
InitFreq == Given({<<>>}, FreqCiphers, 2..MaxAttackCols, 0..MaxKeyLen)

NextFreq == AttackFrequency

SpecFreq == InitFreq /\ [][NextFreq]_vars

\* The column cap: a ciphertext of 11 letters, so that the loops reach column
\* counts 9 and 10, with a known plaintext of 11 letters; and ciphertexts of
\* fillers only, which no branch turns into a candidate.  attack_frequency runs
\* on the 11-letter ciphertexts only where no candidate is generated.
CapCipher == <<88, 66, 88, 88, 88, 88, 88, 88, 88, 88, 65>>
CapPlain == [i \in 1..11 |-> OrdA]
ElevenX == [i \in 1..11 |-> Filler]
CapColCounts == {9, 10}

InitCap ==
    \/ Given({CapPlain}, {CapCipher}, CapColCounts, {0})
    \/ Given({CapPlain}, {ElevenX}, {9}, {1})
    \/ Given(StringsUpTo({65}, MaxKnownLen), StringsUpTo({66, 88}, MaxCipherLen),
             CapColCounts, {1})

NextCap == AttackKnownPlaintext \/ AttackFrequency

SpecCap == InitCap /\ [][NextCap]_vars

\* ================================================================ claims
ValidKeys == Len(in_kv) >= MinVigKeyLen /\ Len(in_kc) >= MinColKeyLen

\* C1: decrypt(encrypt(T, kv, kc), kv, kc) = T for every normalized text T, every
\* Vigenere key of at least 10 letters and every columnar key of at least 2.
C1_RoundTrip ==
    (pc = "decrypted" /\ in_text = normalize_text(in_text) /\ ValidKeys)
        => (dec_res.status = "ok" /\ dec_res.text = in_text)

\* C2: encrypt and decrypt end in InvalidKey, returning no text, exactly when the
\* Vigenere key is shorter than 10 or the columnar key is shorter than 2.
C2_InvalidKey ==
    /\ pc = "encrypted" =>
        /\ (ct_res.status = "InvalidKey") <=> ~ValidKeys
        /\ (ct_res.status # "InvalidKey") => ct_res.status = "ok"
    /\ pc \in {"decrypted", "decrypted_text"} =>
        /\ (dec_res.status = "InvalidKey") <=> ~ValidKeys
        /\ (dec_res.status # "InvalidKey") => dec_res.status = "ok"

\* C3: column_order_from_key(key) lists every index 0..L-1 exactly once, in
\* nondecreasing order of key symbol, equal symbols by increasing index;
\* "AAB" gives [0,1,2] and "ZEBRA" gives [4,2,1,3,0].
C3_ColumnOrder ==
    pc = "ordered" =>
        /\ Len(order_res) = Len(in_kc)
        /\ \A idx \in 0..(Len(in_kc) - 1) :
                Cardinality({j \in 1..Len(order_res) : order_res[j] = idx}) = 1
        /\ \A j, k \in 1..Len(order_res) :
                j < k =>
                    \/ in_kc[order_res[j] + 1] < in_kc[order_res[k] + 1]
                    \/ /\ in_kc[order_res[j] + 1] = in_kc[order_res[k] + 1]
                       /\ order_res[j] < order_res[k]
        /\ in_kc = AAB => order_res = <<0, 1, 2>>
        /\ in_kc = ZEBRA => order_res = <<4, 2, 1, 3, 0>>

\* a key with a repeated symbol has been ordered
C3_Witness ==
    /\ pc = "ordered"
    /\ in_kc = AAB
    /\ order_res = <<0, 1, 2>>

\* C4: for every nonempty normalized plaintext P and valid keys with
\* 2 <= |kc| <= min(max_cols, 8), attack_known_plaintext(P, encrypt(P, kv, kc),
\* max_cols) returns a candidate whose key decrypts its intermediate text to P.
C4_KnownPlaintextComplete ==
    (/\ pc = "attacked"
     /\ in_text = normalize_text(in_text)
     /\ in_text # <<>>
     /\ ValidKeys
     /\ Len(in_kc) <= Min2(in_max_cols, PermCap))
        => \E i \in 1..Len(kp_res) :
                vigenere_decrypt(kp_res[i].intermediate, kp_res[i].kv_key) = in_text

\* ---- the known-plaintext attack, stated without the operators it is built from
KnownPlain == normalize_text(in_text)
KnownCipher == normalize_text(ct_res.text)

\* 0-based position of column col in perm
PositionOf(perm, col) == (CHOOSE s \in 1..Len(perm) : perm[s] = col) - 1

\* the character the cell in row r, column col holds when the text ct is cut
\* into segments of `rows` characters and segment s fills column perm[s]; 0
\* when the segment ends above the cell
CellOf(ct, rows, perm, r, col) ==
    LET idx == PositionOf(perm, col) * rows + r
    IN  IF idx < Len(ct) THEN ct[idx + 1] ELSE 0

\* the cells row by row, empty cells left out
RowMajor(ct, cols, perm) ==
    LET rows == Ceil(Len(ct), cols)
        cells == [k \in 1..(rows * cols) |->
                    CellOf(ct, rows, perm, (k - 1) \div cols, (k - 1) % cols)]
    IN  SelectSeq(cells, LAMBDA ch : ch # 0)

\* t is s without its trailing filler letters
IsStripped(t, s) ==
    /\ Len(t) <= Len(s)
    /\ t = SubSeq(s, 1, Len(t))
    /\ \A j \in (Len(t) + 1)..Len(s) : s[j] = Filler
    /\ Len(t) > 0 => t[Len(t)] # Filler

\* the letter a key decrypts the j-th letter of a text to
DecryptedLetter(t, key, j) ==
    ((((t[j] - OrdA) - (key[((j - 1) % Len(key)) + 1] - OrdA)) + Alphabet) % Alphabet) + OrdA

\* shift[i] = (intermediate[i] - knownPlain[i]) mod 26
ShiftAt(intermediate, kp, j) ==
    ((intermediate[j] - kp[j]) + Alphabet) % Alphabet

\* P is a period of the shifts derived over the known plaintext
IsPeriod(intermediate, kp, P) ==
    \A j \in 1..Len(kp) :
        ShiftAt(intermediate, kp, j) = ShiftAt(intermediate, kp, ((j - 1) % P) + 1)

\* C5: attack_known_plaintext examines every column count c with
\* 2 <= c <= min(max_cols, 8) whatever the ciphertext's length: every (c, perm)
\* whose rebuilt intermediate text is at least as long as the nonempty known
\* plaintext and decrypts, under the minimal-period key, to a text starting
\* with it has a candidate in the result.
C5_EveryColumnCount ==
    pc = "known_attacked" =>
        \A c \in 2..Min2(in_max_cols, PermCap) :
            \A k \in 1..Factorial(c) :
                LET perm == permutations(c)[k]
                    intermediate == Reconstruct(KnownCipher, c, perm)
                    shifts == [j \in 1..Len(KnownPlain) |->
                                  ShiftAt(intermediate, KnownPlain, j)]
                    key == ShiftsToKey(SubSeq(shifts, 1, FirstPeriod(shifts, 1)))
                IN  (/\ KnownPlain # <<>>
                     /\ Len(intermediate) >= Len(KnownPlain)
                     /\ startswith(vigenere_decrypt(intermediate, key), KnownPlain))
                        => \E i \in 1..Len(kp_res) :
                                kp_res[i].cols = c /\ kp_res[i].perm = perm

\* C6: every candidate's intermediate is the known ciphertext un-transposed with
\* the candidate's cols and perm, and its key decrypts that intermediate to a
\* text whose first |knownPlain| letters are the normalized known plaintext.
C6_ValidationSound ==
    pc = "known_attacked" =>
        \A i \in 1..Len(kp_res) :
            LET c == kp_res[i]
            IN  /\ IsStripped(c.intermediate, RowMajor(KnownCipher, c.cols, c.perm))
                /\ Len(c.intermediate) >= Len(KnownPlain)
                /\ Len(c.plaintext_full_candidate) = Len(c.intermediate)
                /\ \A j \in 1..Len(c.intermediate) :
                        c.plaintext_full_candidate[j]
                            = DecryptedLetter(c.intermediate, c.kv_key, j)
                /\ \A j \in 1..Len(KnownPlain) :
                        DecryptedLetter(c.intermediate, c.kv_key, j) = KnownPlain[j]

\* a candidate of three columns whose intermediate is longer than the known
\* plaintext and lost a trailing filler letter
C6_Witness ==
    /\ pc = "known_attacked"
    /\ \E i \in 1..Len(kp_res) :
        /\ kp_res[i].cols = 3
        /\ kp_res[i].perm # <<0, 1, 2>>
        /\ Len(kp_res[i].intermediate) > Len(KnownPlain)
        /\ Len(kp_res[i].intermediate) < Len(KnownCipher)
        /\ Len(KnownPlain) >= 2

\* C9: a candidate's key_len is the smallest P >= 1 that is a period of the
\* derived shifts, its key is the first P shifts, and no (cols, perm) branch
\* has two candidates.
C9_MinimalPeriod ==
    pc = "known_attacked" =>
        /\ \A i \in 1..Len(kp_res) :
            LET c == kp_res[i]
            IN  /\ c.key_len >= 1
                /\ c.key_len <= Len(KnownPlain)
                /\ IsPeriod(c.intermediate, KnownPlain, c.key_len)
                /\ \A P \in 1..(c.key_len - 1) : ~IsPeriod(c.intermediate, KnownPlain, P)
                /\ Len(c.kv_key) = c.key_len
                /\ \A j \in 1..c.key_len :
                        c.kv_key[j] = ShiftAt(c.intermediate, KnownPlain, j) + OrdA
        /\ \A i, j \in 1..Len(kp_res) :
                (kp_res[i].cols = kp_res[j].cols /\ kp_res[i].perm = kp_res[j].perm)
                    => i = j

\* a candidate whose shifts repeat with a period of 2 over 3 known letters
C9_Witness ==
    /\ pc = "known_attacked"
    /\ Len(KnownPlain) = 3
    /\ \E i \in 1..Len(kp_res) :
        /\ kp_res[i].key_len = 2
        /\ kp_res[i].kv_key[1] # kp_res[i].kv_key[2]

\* the column counts the loop of attack_known_plaintext permutes
ExaminedCols ==
    {c \in 2..(Min2(in_max_cols + 1, Len(KnownCipher)) - 1) : c <= PermCap}

\* C10: for a nonempty known plaintext the validation never rejects: the result
\* has exactly one candidate for every examined (cols, perm) whose intermediate
\* text is at least as long as the known plaintext.
C10_NeverRejects ==
    (pc = "known_attacked" /\ KnownPlain # <<>>) =>
        /\ Len(kp_res) =
            Cardinality(UNION {
                {<<c, k>> : k \in {k \in 1..Factorial(c) :
                    Len(rstrip(RowMajor(KnownCipher, c, permutations(c)[k]))) >= Len(KnownPlain)}}
                : c \in ExaminedCols})
        /\ \A c \in ExaminedCols : \A k \in 1..Factorial(c) :
                Len(rstrip(RowMajor(KnownCipher, c, permutations(c)[k]))) >= Len(KnownPlain)
                    => \E i \in 1..Len(kp_res) :
                            kp_res[i].cols = c /\ kp_res[i].perm = permutations(c)[k]

\* several branches are long enough and several are not
C10_Witness ==
    /\ pc = "known_attacked"
    /\ Len(KnownPlain) >= 2
    /\ Len(kp_res) >= 2
    /\ Len(kp_res) < Cardinality(UNION {{<<c, k>> : k \in 1..Factorial(c)} : c \in ExaminedCols})

C8_TopTen ==
    pc = "freq_attacked" =>
        /\ Len(best_candidates) =
            Cardinality(UNION {
                {<<c, k, kl>> : k \in 1..Factorial(c), kl \in 1..in_kv_maxlen} : c \in ExaminedCols}
                \ {b \in UNION {{<<c, k, kl>> : k \in 1..Factorial(c), kl \in 1..in_kv_maxlen}
                                    : c \in ExaminedCols} :
                        b[3] > Len(rstrip(RowMajor(KnownCipher, b[1], permutations(b[1])[b[2]])))})
        /\ Len(freq_res) = Min2(10, Len(best_candidates))
        /\ \A i \in 1..(Len(freq_res) - 1) : freq_res[i].score <= freq_res[i + 1].score
        /\ Cardinality(Range(freq_res)) = Len(freq_res)
        /\ Range(freq_res) \subseteq Range(best_candidates)
        /\ \A x \in Range(best_candidates) \ Range(freq_res) :
                \A y \in Range(freq_res) : x.score >= y.score
        /\ \A i \in 1..Len(freq_res) :
                /\ freq_res[i].key_len >= 1
                /\ freq_res[i].key_len <=
                        Min2(in_kv_maxlen,
                             Len(rstrip(RowMajor(KnownCipher, freq_res[i].cols, freq_res[i].perm))))
                /\ Len(freq_res[i].key) = freq_res[i].key_len

\* more than 10 candidates were generated, and the 10 returned differ in score
C8_Witness ==
    /\ pc = "freq_attacked"
    /\ Len(best_candidates) > 10
    /\ Len(freq_res) = 10
    /\ freq_res[1].score < freq_res[10].score
    /\ \E i \in 1..10 : freq_res[i].key_len = 2

====
